---- MODULE Spec2Model ----
(***************************************************************************)
(* Model of fuck.py: print_binary_with_one_indices_reversed and the        *)
(* __main__ entry point.                                                   *)
(*                                                                         *)
(* A Python str is modelled as a sequence of one-character strings.        *)
(* stdout is the sequence of writes made so far; print(x) is one write of  *)
(* x followed by a newline, the prompt of input() is a write without one.  *)
(* stdin is the lines waiting on standard input, consumed the number read.  *)
(* The script is either run (name = "__main__": prompt, read, strip, one   *)
(* call) or imported (name = "fuck": the importer calls the function).     *)
(* The locals of the function are variables; a local that is not yet bound *)
(* in the current call holds whatever an earlier call left there, and the  *)
(* body assigns every local before it reads it.                            *)
(***************************************************************************)
EXTENDS Integers, Sequences, FiniteSets, TLC

VARIABLES name, pc, stdin, consumed, stdout, binary_input, binary_string, bits_line,
          reversed_indices, indices_line, calls

vars == << name, pc, stdin, consumed, stdout, binary_input, binary_string, bits_line,
           reversed_indices, indices_line, calls >>

locals == << binary_string, bits_line, reversed_indices, indices_line >>

(***************************************************************************)
(* Bounds of the model.                                                    *)
(***************************************************************************)
MaxLen == 4        \* every line over Alphabet up to this length is an input
MaxTail == 1       \* length of the binary tail of a long input
MaxPad == 999      \* longest run of '0' inside a long input
MaxArgLen == 1     \* length of the arguments an importer passes
MaxCalls == 3      \* calls an importer makes

Alphabet == {"0", "1", "2", " "}

Whitespace == {" ", "\t", "\n", "\r", "\f"}

PadLens == {9, 99, MaxPad}

\* line 15: width = 3
width == 3

\* line 11: the text of the error message
ErrorMessage == <<
    "E", "r", "r", "o", "r", ":", " ", "I", "n", "p", "u", "t", " ", "m",
    "u", "s", "t", " ", "b", "e", " ", "a", " ", "b", "i", "n", "a", "r",
    "y", " ", "s", "t", "r", "i", "n", "g", " ", "c", "o", "n", "t", "a",
    "i", "n", "i", "n", "g", " ", "o", "n", "l", "y", " ", "'", "0", "'",
    " ", "a", "n", "d", " ", "'", "1", "'", "." >>

\* line 34: the prompt of input()
Prompt == <<
    "E", "n", "t", "e", "r", " ", "a", " ", "b", "i", "n", "a", "r", "y",
    " ", "s", "t", "r", "i", "n", "g", ":", " " >>

Digits == << "0", "1", "2", "3", "4", "5", "6", "7", "8", "9" >>

(***************************************************************************)
(* Inputs.                                                                 *)
(***************************************************************************)
StringsUpTo(S, n) == UNION { [1..k -> S] : k \in 0..n }

Repeat(c, n) == [k \in 1..n |-> c]

ShortInputs == StringsUpTo(Alphabet, MaxLen)

LongInputs ==
    { h \o Repeat("0", k) \o t :
        h \in [1..1 -> {"0", "1"}], k \in PadLens,
        t \in StringsUpTo({"0", "1"}, MaxTail) }

Inputs == ShortInputs \cup LongInputs

HarnessArgs == StringsUpTo(Alphabet, MaxArgLen)

(***************************************************************************)
(* Pure helpers: the built-ins the code uses.                              *)
(***************************************************************************)
Max(a, b) == IF a >= b THEN a ELSE b

\* bit in "01" for a one-character bit
In01(bit) == \E k \in 1..Len(<< "0", "1" >>) : << "0", "1" >>[k] = bit

\* all(bit in "01" for bit in binary_string)
\* variants of the check: any() for all(), the first character only, and
\* a check that refuses the empty string
IsBinaryAny(s) == \E i \in 1..Len(s) : In01(s[i])
IsBinaryFirst(s) == Len(s) = 0 \/ In01(s[1])
IsBinaryNonEmpty(s) == Len(s) > 0 /\ \A i \in 1..Len(s) : In01(s[i])
IsBinary(s) == \A i \in 1..Len(s) : In01(s[i])

\* str.strip() with no argument
LStripCount(s) ==
    IF \A i \in 1..Len(s) : s[i] \in Whitespace
    THEN Len(s)
    ELSE (CHOOSE i \in 1..Len(s) :
             /\ s[i] \notin Whitespace
             /\ \A j \in 1..(i - 1) : s[j] \in Whitespace) - 1

RStripEnd(s) ==
    IF \A i \in 1..Len(s) : s[i] \in Whitespace
    THEN 0
    ELSE CHOOSE i \in 1..Len(s) :
             /\ s[i] \notin Whitespace
             /\ \A j \in (i + 1)..Len(s) : s[j] \in Whitespace

\* variant: lstrip() for strip()
StripLeftOnly(s) == SubSeq(s, LStripCount(s) + 1, Len(s))
Strip(s) == SubSeq(s, LStripCount(s) + 1, RStripEnd(s))

\* str(n) for n >= 0
RECURSIVE Str(_)
Str(n) == IF n < 10 THEN << Digits[n + 1] >>
          ELSE Str(n \div 10) \o << Digits[(n % 10) + 1] >>

\* format(value, "^w"): centre in a field of w, the odd space on the right;
\* a value longer than the field is not cut
\* variant: the odd space on the left, as str.center() places it
FormatCenterLeftBias(s, w) ==
    LET total == Max(0, w - Len(s))
        right == total \div 2
        left  == total - right
    IN  Repeat(" ", left) \o s \o Repeat(" ", right)
FormatCenter(s, w) ==
    LET total == Max(0, w - Len(s))
        left  == total \div 2
        right == total - left
    IN  Repeat(" ", left) \o s \o Repeat(" ", right)

\* ''.join(cells): the cells lo..hi concatenated in order (split in halves,
\* concatenation being associative)
RECURSIVE JoinRange(_, _, _)
JoinRange(cells, lo, hi) ==
    IF lo > hi THEN << >>
    ELSE IF lo = hi THEN cells[lo]
    ELSE LET mid == (lo + hi) \div 2
         IN  JoinRange(cells, lo, mid) \o JoinRange(cells, mid + 1, hi)

Join(cells) == JoinRange(cells, 1, Len(cells))

\* list(range(start, stop, -1))
RangeDown(start, stop) == [k \in 1..Max(0, start - stop) |-> start - (k - 1)]

\* what print(x) writes
Line(x) == x \o << "\n" >>

(***************************************************************************)
(* History of calls: the argument and the length of stdout at entry.       *)
(***************************************************************************)
Mark(k) == calls[k].mark

OutputOf(k) ==
    SubSeq(stdout, Mark(k) + 1,
           IF k < Len(calls) THEN Mark(k + 1) ELSE Len(stdout))

Returned(k) == k < Len(calls) \/ pc \in {"returned", "exit"}

InCall == Len(calls) > 0 /\ pc \notin {"start", "read", "idle"}

CurOutput == OutputOf(Len(calls))

(***************************************************************************)
(* Init: the interpreter has loaded the module.                            *)
(***************************************************************************)
Init ==
    /\ name \in {"__main__", "fuck"}
    /\ pc = IF name = "__main__" THEN "start" ELSE "idle"
    /\ stdin \in IF name = "__main__" THEN { << l >> : l \in Inputs }
                                      ELSE { << >> }
    /\ consumed = 0
    /\ stdout = << >>
    /\ binary_input = << >>
    /\ binary_string = << >>
    /\ bits_line = << >>
    /\ reversed_indices = << >>
    /\ indices_line = << >>
    /\ calls = << >>

(***************************************************************************)
(* Entry point, lines 32-36.                                               *)
(***************************************************************************)
\* line 34: binary_input = input("Enter a binary string: ").strip()
ReadInput ==
    /\ pc = "start"
    /\ name = "__main__"
    /\ consumed < Len(stdin)
    /\ stdout' = Append(stdout, Prompt)
    /\ binary_input' = Strip(stdin[consumed + 1])
    /\ consumed' = consumed + 1
    /\ pc' = "read"
    /\ UNCHANGED << name, stdin, locals, calls >>

\* entry of the function: the parameter is bound
Call(arg) ==
    /\ binary_string' = arg
    /\ calls' = Append(calls, [arg |-> arg, mark |-> Len(stdout)])
    /\ pc' = "validate"
    /\ UNCHANGED << name, stdin, consumed, stdout, binary_input, bits_line,
                    reversed_indices, indices_line >>

\* line 36
MainCall ==
    /\ pc = "read"
    /\ Call(binary_input)

\* an importer calls the function
HarnessCall ==
    /\ name # "__main__"
    /\ pc \in {"idle", "returned"}
    /\ Len(calls) < MaxCalls
    /\ \E arg \in HarnessArgs : Call(arg)

(***************************************************************************)
(* print_binary_with_one_indices_reversed, lines 1-29.                     *)
(***************************************************************************)
\* lines 10-12: on invalid input the error is printed and the function
\* returns; otherwise the body goes on (line 15)
\* variant: the return of line 12 is missing
ValidateNoReturn ==
    /\ pc = "validate"
    /\ IF ~IsBinary(binary_string)
       THEN /\ stdout' = Append(stdout, Line(ErrorMessage))
            /\ pc' = "bits"
       ELSE /\ stdout' = stdout
            /\ pc' = "bits"
    /\ UNCHANGED << name, stdin, consumed, binary_input, locals, calls >>
Validate ==
    /\ pc = "validate"
    /\ IF ~IsBinary(binary_string)
       THEN /\ stdout' = Append(stdout, Line(ErrorMessage))
            /\ pc' = "returned"
       ELSE /\ stdout' = stdout
            /\ pc' = "bits"
    /\ UNCHANGED << name, stdin, consumed, binary_input, locals, calls >>

\* line 18
\* variant: bits_line += ... on a value that outlives the call
BuildBitsAccumulate ==
    /\ pc = "bits"
    /\ bits_line' = bits_line \o
          Join([i \in 1..Len(binary_string) |->
                  FormatCenter(<< binary_string[i] >>, width)])
    /\ pc' = "print_bits"
    /\ UNCHANGED << name, stdin, consumed, stdout, binary_input, binary_string,
                    reversed_indices, indices_line, calls >>
BuildBits ==
    /\ pc = "bits"
    /\ bits_line' = Join([i \in 1..Len(binary_string) |->
                            FormatCenter(<< binary_string[i] >>, width)])
    /\ pc' = "print_bits"
    /\ UNCHANGED << name, stdin, consumed, stdout, binary_input, binary_string,
                    reversed_indices, indices_line, calls >>

\* line 19
\* variant: print(bits_line.rstrip())
PrintBitsTrimmed ==
    /\ pc = "print_bits"
    /\ stdout' = Append(stdout, Line(SubSeq(bits_line, 1, RStripEnd(bits_line))))
    /\ pc' = "reversed"
    /\ UNCHANGED << name, stdin, consumed, binary_input, locals, calls >>
PrintBits ==
    /\ pc = "print_bits"
    /\ stdout' = Append(stdout, Line(bits_line))
    /\ pc' = "reversed"
    /\ UNCHANGED << name, stdin, consumed, binary_input, locals, calls >>

\* line 22
\* variant: list(range(len(binary_string)))
BuildReversedForward ==
    /\ pc = "reversed"
    /\ reversed_indices' = [k \in 1..Len(binary_string) |-> k - 1]
    /\ pc' = "indices"
    /\ UNCHANGED << name, stdin, consumed, stdout, binary_input, binary_string,
                    bits_line, indices_line, calls >>
BuildReversed ==
    /\ pc = "reversed"
    /\ reversed_indices' = RangeDown(Len(binary_string) - 1, -1)
    /\ pc' = "indices"
    /\ UNCHANGED << name, stdin, consumed, stdout, binary_input, binary_string,
                    bits_line, indices_line, calls >>

\* lines 25-28
\* variant: ' ' for ' ' * width
BuildIndicesNarrowBlank ==
    /\ pc = "indices"
    /\ indices_line' =
          Join([i \in 1..Len(binary_string) |->
                  IF binary_string[i] = "1"
                  THEN FormatCenter(Str(reversed_indices[i]), width)
                  ELSE << " " >>])
    /\ pc' = "print_indices"
    /\ UNCHANGED << name, stdin, consumed, stdout, binary_input, binary_string,
                    bits_line, reversed_indices, calls >>
BuildIndices ==
    /\ pc = "indices"
    /\ indices_line' =
          Join([i \in 1..Len(binary_string) |->
                  IF binary_string[i] = "1"
                  THEN FormatCenter(Str(reversed_indices[i]), width)
                  ELSE Repeat(" ", width)])
    /\ pc' = "print_indices"
    /\ UNCHANGED << name, stdin, consumed, stdout, binary_input, binary_string,
                    bits_line, reversed_indices, calls >>

\* line 29 and the return at the end of the body
PrintIndices ==
    /\ pc = "print_indices"
    /\ stdout' = Append(stdout, Line(indices_line))
    /\ pc' = "returned"
    /\ UNCHANGED << name, stdin, consumed, binary_input, locals, calls >>

\* the script (or the importer) ends
Exit ==
    /\ pc = "returned"
    /\ pc' = "exit"
    /\ UNCHANGED << name, stdin, consumed, stdout, binary_input, locals, calls >>

Next ==
    \/ ReadInput
    \/ MainCall
    \/ HarnessCall
    \/ Validate
    \/ BuildBits
    \/ PrintBits
    \/ BuildReversed
    \/ BuildIndices
    \/ PrintIndices
    \/ Exit

Spec == Init /\ [][Next]_vars

\* the program is one thread that runs to completion: every step that can
\* be taken is taken; the fair specification reads the lines of ShortInputs
FairInit == Init /\ \A l \in 1..Len(stdin) : stdin[l] \in ShortInputs

FairSpec == FairInit /\ [][Next]_vars /\ WF_vars(Next)

(***************************************************************************)
(* Vocabulary of the properties.                                           *)
(***************************************************************************)
BinaryChars == {"0", "1"}

AllBinary(s) == \A i \in 1..Len(s) : s[i] \in BinaryChars

HasNonBinary(s) == \E i \in 1..Len(s) : s[i] \notin BinaryChars

ErrorLine == Line(ErrorMessage)

CurArg == calls[Len(calls)].arg

Finished == Len(calls) > 0 /\ pc \in {"returned", "exit"}

IsPrefix(p, q) == Len(p) <= Len(q) /\ p = SubSeq(q, 1, Len(p))

\* one space, the character, one space for every character of s, in order
ExpectedBitsLine(s) ==
    [j \in 1..(3 * Len(s)) |-> IF j % 3 = 2 THEN s[(j + 1) \div 3] ELSE " "]

(***************************************************************************)
(* C1: once the check of line 10 has run, the argument is treated as       *)
(* invalid (the error line is written) exactly when one of its characters  *)
(* is not '0' or '1'; the empty string is treated as valid.                *)
(***************************************************************************)
C1_ValidatorIff ==
    (InCall /\ pc # "validate") =>
        (AllBinary(CurArg) <=> (\A w \in 1..Len(CurOutput) :
                                   CurOutput[w] # ErrorLine))

C1_Witness ==
    /\ Finished
    /\ Len(CurArg) >= 2
    /\ CurArg[1] \in BinaryChars
    /\ HasNonBinary(CurArg)
    /\ CurOutput = << ErrorLine >>

(***************************************************************************)
(* C2: for an argument with a non-binary character at any position the     *)
(* output of the call is never anything but the error line, and it is      *)
(* exactly the error line when the call has returned.                      *)
(***************************************************************************)
C2_ErrorOnly ==
    \A k \in 1..Len(calls) :
        HasNonBinary(calls[k].arg) =>
            /\ OutputOf(k) \in { << >>, << ErrorLine >> }
            /\ Returned(k) => OutputOf(k) = << ErrorLine >>

C2_Witness ==
    /\ Finished
    /\ Len(CurArg) = 3
    /\ CurArg[1] \in BinaryChars
    /\ CurArg[2] \notin BinaryChars
    /\ CurArg[3] \in BinaryChars
    /\ CurOutput = << ErrorLine >>

(***************************************************************************)
(* C4: for a valid argument s the first line written is, for every         *)
(* character of s in order, one space, the character, one space, and       *)
(* nothing else.                                                           *)
(***************************************************************************)
C4_BitsLine ==
    (InCall /\ AllBinary(CurArg) /\ Len(CurOutput) >= 1) =>
        CurOutput[1] = Line(ExpectedBitsLine(CurArg))

C4_Witness ==
    /\ Finished
    /\ AllBinary(CurArg)
    /\ Len(CurArg) >= 3
    /\ \E i, j \in 1..Len(CurArg) : CurArg[i] = "0" /\ CurArg[j] = "1"
    /\ CurOutput[1] = Line(ExpectedBitsLine(CurArg))

(***************************************************************************)
(* C7: the empty string is accepted and the output of the call is two      *)
(* empty lines.                                                            *)
(***************************************************************************)
C7_EmptyInput ==
    \A k \in 1..Len(calls) :
        calls[k].arg = << >> =>
            /\ IsPrefix(OutputOf(k), << Line(<< >>), Line(<< >>) >>)
            /\ Returned(k) => OutputOf(k) = << Line(<< >>), Line(<< >>) >>

C7_Witness ==
    /\ Finished
    /\ CurArg = << >>
    /\ CurOutput = << << "\n" >>, << "\n" >> >>

(***************************************************************************)
(* Decimal numerals and 3-wide cells, stated without the code's helpers.   *)
(***************************************************************************)
NumDigits(v) == CHOOSE n \in 1..7 : (n = 1 \/ v >= 10^(n - 1)) /\ v < 10^n

Decimal(v) ==
    [j \in 1..NumDigits(v) |-> Digits[((v \div 10^(NumDigits(v) - j)) % 10) + 1]]

Spaces(n) == [k \in 1..n |-> " "]

\* total_pad = 3 - len(value); left = total_pad // 2; right = total_pad - left
CenteredIn3(d) ==
    LET total == 3 - Len(d)
        left  == total \div 2
    IN  Spaces(left) \o d \o Spaces(total - left)

\* the reversed index of the character at position i (counted from 1) of s
ReversedIndex(s, i) == Len(s) - i

ExpectedCell(s, i) ==
    IF s[i] = "1" THEN CenteredIn3(Decimal(ReversedIndex(s, i))) ELSE Spaces(3)

\* columns 3i-2 .. 3i of a line
Cell3(L, i) == SubSeq(L, 3 * i - 2, 3 * i)

\* no '1' bit has a reversed index of more than three digits
NoWideIndex(s) ==
    \A i \in 1..Len(s) : s[i] = "1" => ReversedIndex(s, i) < 10^3

IndicesWritten == InCall /\ AllBinary(CurArg) /\ Len(CurOutput) >= 2

CellsAsStated(s, L) ==
    /\ Len(L) = 3 * Len(s) + 1
    /\ L[Len(L)] = "\n"
    /\ \A i \in 1..Len(s) : Cell3(L, i) = ExpectedCell(s, i)
    /\ Cardinality({ i \in 1..Len(s) : Cell3(L, i) # Spaces(3) })
         = Cardinality({ i \in 1..Len(s) : s[i] = "1" })

CellStart(s, i) ==
    3 * (i - 1)
    + Cardinality({ j \in 1..(i - 1) : s[j] = "1" /\ ReversedIndex(s, j) >= 10^3 })
    + Cardinality({ j \in 1..(i - 1) : s[j] = "1" /\ ReversedIndex(s, j) >= 10^4 })

CellAt(s, L, i) == SubSeq(L, CellStart(s, i) + 1, CellStart(s, i) + 3)

C5_TwoDigitCell ==
    IndicesWritten =>
        LET s == CurArg
            L == CurOutput[2]
        IN  /\ Len(L) = CellStart(s, Len(s) + 1) + 1
            /\ \A i \in 1..Len(s) :
                  LET v == ReversedIndex(s, i)
                  IN  /\ (s[i] = "1" /\ v >= 10 /\ v <= 99) =>
                             CellAt(s, L, i) =
                                << Digits[(v \div 10) + 1], Digits[(v % 10) + 1], " " >>
                      /\ (s[i] = "1" /\ v <= 9) =>
                             CellAt(s, L, i) = << " ", Digits[v + 1], " " >>

C5_Witness ==
    /\ Finished
    /\ AllBinary(CurArg)
    /\ Len(CurArg) = 11
    /\ CurArg[1] = "1"
    /\ SubSeq(CurOutput[2], 1, 3) = << "1", "0", " " >>

(***************************************************************************)
(* C10 as stated: for every valid s of length N, whatever N, both lines    *)
(* have exactly 3*N characters and every printed index sits in columns     *)
(* 3i..3i+2 directly beneath its '1' bit.                                  *)
(***************************************************************************)
Aligned(s, L1, L2) ==
    /\ Len(L1) = 3 * Len(s) + 1
    /\ Len(L2) = 3 * Len(s) + 1
    /\ \A i \in 1..Len(s) :
          s[i] = "1" =>
             /\ L1[3 * i - 1] = "1"
             /\ SelectSeq(Cell3(L2, i), LAMBDA c : c # " ")
                   = Decimal(ReversedIndex(s, i))
    /\ \A j \in 1..(3 * Len(s)) : L2[j] # " " => s[(j + 2) \div 3] = "1"

AfterPrompt == SubSeq(stdout, 2, Len(stdout))

C6_OrderInv ==
    name = "__main__" =>
        /\ consumed = (IF pc = "start" THEN 0 ELSE 1)
        /\ pc = "start" => stdout = << >>
        /\ pc # "start" =>
             /\ stdout[1] = Prompt
             /\ AllBinary(binary_input) =>
                  /\ Len(AfterPrompt) <= 2
                  /\ Len(AfterPrompt) >= 1 =>
                        AfterPrompt[1] = Line(ExpectedBitsLine(binary_input))
                  /\ Len(AfterPrompt) = 2 => AfterPrompt[2] = Line(indices_line)
                  /\ pc = "exit" => Len(AfterPrompt) = 2
             /\ HasNonBinary(binary_input) =>
                  /\ IsPrefix(AfterPrompt, << ErrorLine >>)
                  /\ pc = "exit" => AfterPrompt = << ErrorLine >>
             /\ (\E w \in 1..Len(AfterPrompt) : AfterPrompt[w] = ErrorLine) =>
                  AfterPrompt = << ErrorLine >>

C6_ReadWriteTerminate == [](C6_OrderInv) /\ <>(pc = "exit")

C6_Witness ==
    /\ name = "__main__"
    /\ pc = "exit"
    /\ consumed = 1
    /\ Len(binary_input) >= 2
    /\ Len(stdout) = 3
    /\ stdout[2] # stdout[3]

(***************************************************************************)
(* C8: two calls of the function with the same argument write the same     *)
(* output, whatever was called before or between them.                     *)
(***************************************************************************)
C8_SameOutput ==
    \A k, l \in 1..Len(calls) :
        (k < l /\ calls[k].arg = calls[l].arg /\ Returned(l)) =>
            OutputOf(k) = OutputOf(l)

C8_Witness ==
    /\ Len(calls) = 3
    /\ Finished
    /\ calls[1].arg = calls[3].arg
    /\ calls[2].arg # calls[1].arg
    /\ Len(calls[1].arg) > 0
    /\ AllBinary(calls[1].arg)
    /\ AllBinary(calls[2].arg)
    /\ Len(OutputOf(3)) = 2
    /\ OutputOf(1) = OutputOf(3)

(***************************************************************************)
(* C9: the entry point validates the line without its leading and trailing *)
(* whitespace: a binary string surrounded by whitespace is rendered as the *)
(* bare binary string, a line of whitespace as the empty string, and       *)
(* whitespace between two bits stays and makes the input invalid.          *)
(***************************************************************************)
IsSpace(c) == c \in Whitespace

C9_StripBeforeValidate ==
    (name = "__main__" /\ pc # "start") =>
        LET r == stdin[1]
        IN  /\ \A p \in 0..Len(r) :
                  (\A i \in 1..p : IsSpace(r[i])) =>
                     \A q \in p..Len(r) :
                        ( /\ \A i \in (q + 1)..Len(r) : IsSpace(r[i])
                          /\ AllBinary(SubSeq(r, p + 1, q)) ) =>
                            /\ binary_input = SubSeq(r, p + 1, q)
                            /\ Len(calls) > 0 => CurArg = SubSeq(r, p + 1, q)
                            /\ Len(AfterPrompt) >= 1 =>
                                  AfterPrompt[1] =
                                     Line(ExpectedBitsLine(SubSeq(r, p + 1, q)))
                            /\ pc = "exit" => Len(AfterPrompt) = 2
            /\ (\A i \in 1..Len(r) : IsSpace(r[i])) =>
                  /\ binary_input = << >>
                  /\ pc = "exit" => AfterPrompt = << Line(<< >>), Line(<< >>) >>
            /\ (\E j \in 1..Len(r) :
                   /\ IsSpace(r[j])
                   /\ \E i \in 1..(j - 1) : r[i] \in BinaryChars
                   /\ \E k \in (j + 1)..Len(r) : r[k] \in BinaryChars) =>
                  /\ IsPrefix(AfterPrompt, << ErrorLine >>)
                  /\ pc = "exit" => AfterPrompt = << ErrorLine >>

C9_Witness ==
    /\ name = "__main__"
    /\ pc = "exit"
    /\ Len(stdin[1]) = 4
    /\ IsSpace(stdin[1][1])
    /\ IsSpace(stdin[1][4])
    /\ binary_input = << "1", "0" >>
    /\ AfterPrompt[1] = << " ", "1", " ", " ", "0", " ", "\n" >>
    /\ AfterPrompt[2] = << " ", "1", " ", " ", " ", " ", "\n" >>

====
